---- MODULE Spec2Model ----
(***************************************************************************)
(* parquet2bigquery: the bulk loader of parquet2bigquery/lib.py.           *)
(*                                                                         *)
(* Spec          bulk() and its pool of _bulk_run workers, each running    *)
(*               run() on the items of one shared JoinableQueue.           *)
(* SpecDiscovery the discovery phase of bulk(): get_latest_object and      *)
(*               remove_loaded_objects over a listing and a destination    *)
(*               table.                                                    *)
(***************************************************************************)
EXTENDS Naturals, Integers, Sequences, FiniteSets, TLC

(* ------------------------------ bounds --------------------------------- *)
\* `concurrency`: the number of worker processes bulk starts.
Concurrency == 2
\* The largest number of objects the discovery hands to the queue.
MaxTasks == 2
\* How many warehouse calls of one run may fail (transient or fatal).
MaxFaults == 2
\* The largest listing get_latest_object reads, and the latest `updated`.
MaxBlobs == 3
MaxTime == 2
\* The largest dict remove_loaded_objects gets, and the days of its keys.
MaxDirs == 3
MaxDay == 2
\* The values of the extra partition of a directory.
ExtraValues == {"a", "b"}
\* The longest schema get_schema_diff is given.
MaxFields == 2

Workers == 1 .. Concurrency
Tasks   == 1 .. MaxTasks
\* ids of the task attempts (one scratch table name each)
Attempts == 1 .. (MaxTasks + MaxFaults)

\* The sentinel bulk puts on the queue: iter(q.get, None) stops on it.
None == 0
\* No process holds the multiprocessing Lock.
Free == 0

VARIABLES
    bulkpc,      \* where bulk() is: "put", "start" (then q.join), "sentinel", "pjoin", "done"
    nobj,        \* len(objects): the tasks bulk has to enqueue
    nput,        \* tasks enqueued so far
    started,     \* worker processes started so far (the last one is `p`)
    nsent,       \* sentinels put so far
    queue,       \* q: the items in the JoinableQueue, oldest first
    unfinished,  \* q's count of unfinished tasks (put: +1, task_done: -1)
    lock,        \* the `lock` argument of _bulk_run/run: TRUE a Lock, FALSE None
    lockHolder,  \* the worker holding the Lock, or Free
    pc,          \* pc[w]: where worker w is
    item,        \* item[w]: the item worker w took from the queue
    att,         \* att[w]: the id of worker w's current attempt
    raised,      \* raised[w]: what run() raised: "none", "GCWarning", "fatal"
    destExists,  \* the destination table exists in the warehouse
    scratch,     \* the attempts whose scratch table exists in the tmp dataset
    attempts,    \* history: one record per attempt started, by attempt id
    faults,      \* history: warehouse calls that failed so far
    objkey,      \* objkey[t]: the object key of task t
    destSchema,  \* the schema of the destination table (<< >> while it is missing)
    additions,   \* additions[w]: schema_additions of worker w's run()
    tableRead,   \* tableRead[w]: table.schema as update_bq_table_schema read it
    \* get_schema_diff
    schema1,     \* the current schema
    schema2,     \* the proposed schema
    dpc,         \* "called" before get_schema_diff, "returned" or "raised" after
    diff,        \* what get_schema_diff returned
    \* get_latest_object
    blobs,       \* the listing bucket.list_blobs returns, in its order
    bi,          \* how many blobs the for loop has handled
    latest_objects,      \* dict: directory -> name of its latest object
    latest_objects_tmp,  \* dict: directory -> `updated` of that object
    \* remove_loaded_objects
    rpc,         \* "call" before remove_loaded_objects, "returned" after
    candidates,  \* the `objects` argument as passed in
    objects,     \* the `objects` dict, returned after the deletions
    tableExists, \* check_bq_table_exists of the destination table
    tableRows    \* the (date, extra partition) values in the destination table

schemaVars == <<destSchema, additions, tableRead>>

keyVars == <<objkey>>

poolVars == <<bulkpc, nobj, nput, started, nsent, queue, unfinished, lock,
              lockHolder, pc, item, att, raised, destExists, scratch,
              attempts, faults, schemaVars, keyVars>>

diffVars == <<schema1, schema2, dpc, diff>>

latestVars == <<blobs, bi, latest_objects, latest_objects_tmp>>

resumeVars == <<rpc, candidates, objects, tableExists, tableRows>>

vars == <<poolVars, latestVars, resumeVars, diffVars>>


(* --------------------------- helpers ----------------------------------- *)
\* One attempt of run() on a task: `created` once its scratch table was made,
\* `create` what create_primary_bq_table did, `end` and `stage` how and where
\* the attempt ended.
\* `error` and `errorStage`: the class of the first error a call of the attempt
\* raised ("transient": InternalServerError or ServiceUnavailable, "other":
\* anything else) and the stage of that call. `altered`: the attempt updated
\* the destination schema.
NewAttempt(t) ==
    [task |-> t, created |-> FALSE, create |-> "none", altered |-> FALSE,
     merged |-> FALSE, end |-> "running", stage |-> "STAGING",
     error |-> "none", errorStage |-> "none"]

\* A warehouse call may fail while the fault budget lasts.
MayFail == faults < MaxFaults

\* The attempt record after a call of stage s raised an error of class e.
Failed(a, e, s) ==
    IF a.error = "none" THEN [a EXCEPT !.error = e, !.errorStage = s] ELSE a

\* Mutant of RaiseError: a transient service error is turned into a GCWarning
\* wherever it is raised.
RaiseError_RetriedEverywhere(w, e, k, s) ==
    /\ raised' = [raised EXCEPT ![w] = IF e = "transient" THEN "GCWarning" ELSE k]
    /\ attempts' = [attempts EXCEPT ![att[w]] =
                        [Failed(@, e, s) EXCEPT
                            !.end = IF e = "transient" THEN "transient" ELSE "fatal",
                            !.stage = s]]
    /\ pc' = [pc EXCEPT ![w] = IF e = "transient" THEN "requeue" ELSE "ack"]

\* A call of stage s raised an error of class e and run() leaves with an
\* exception of kind k ("GCWarning" or "fatal").
RaiseError(w, e, k, s) ==
    /\ raised' = [raised EXCEPT ![w] = k]
    /\ attempts' = [attempts EXCEPT ![att[w]] =
                        [Failed(@, e, s) EXCEPT
                            !.end = IF k = "GCWarning" THEN "transient" ELSE "fatal",
                            !.stage = s]]
    /\ pc' = [pc EXCEPT ![w] = IF k = "GCWarning" THEN "requeue" ELSE "ack"]

\* run() leaves with an exception of kind k raised in stage s.
Raise(w, k, s) ==
    RaiseError(w, IF k = "GCWarning" THEN "transient" ELSE "other", k, s)

\* The classes of error a warehouse call raises.
ErrorClasses == {"transient", "other"}

\* lock.release() of the finally clause (nothing to release when lock is None).
Released(w) == IF lock THEN Free ELSE lockHolder

(* --------------------------- object keys ------------------------------- *)
\* A partition value as it stands in an object key: the day it names and the
\* strptime format it is written in ('20240102' or '2024-01-02').
date_formats == <<"%Y%m%d", "%Y-%m-%d">>

RawDates == [fmt : {date_formats[i] : i \in 1 .. Len(date_formats)},
             day : 1 .. MaxDay]

\* A partition directory <path_prefix>/<field>=<raw date>/<part>=<value>:
\* the key of the dicts of get_latest_object and remove_loaded_objects.
Dirs == [prefix : {"table/v1"}, field : {"submission_date"}, raw : RawDates,
         part : {"sample_id"}, value : ExtraValues]

\* Partition values that match none of date_formats: one that dateutil's
\* parse still reads as a day ('2024.01.02'), and one it does not ('abc').
OtherRaw == [fmt |-> "%Y.%m.%d", day |-> 1]

Unparsable == [fmt |-> "None", day |-> 0]

\* datetime.strptime(date, date_format) succeeds.
Strptime(date, date_format) == date.fmt = date_format

\* dateutil's parse(date) returns; it raises ParserError, a ValueError, on a
\* string that names no day.
Parsable(date) == date.fmt # "None"

\* dateutil's parse(date): the day the string names, in whatever format.
parse(date) == date.day

\* day.strftime(date_format)
strftime(day, date_format) == [fmt |-> date_format, day |-> day]

\* get_date_format: the first of date_formats the value parses in. When none
\* does, the function logs and evaluates the bare name `exit`, which does
\* nothing: it falls off its end and returns None.
get_date_format(date) ==
    LET ok == {i \in 1 .. Len(date_formats) : Strptime(date, date_formats[i])}
    IN  IF ok = {} THEN "None"
        ELSE date_formats[CHOOSE i \in ok : \A j \in ok : i <= j]

\* _get_object_key_metadata of a directory key.
get_object_key_metadata(dir) ==
    [path_prefix    |-> dir.prefix,
     date_partition |-> <<dir.field, strftime(parse(dir.raw), "%Y-%m-%d")>>,
     date_format    |-> get_date_format(dir.raw),
     partitions     |-> << <<dir.part, dir.value>> >>]

\* The object key of a task: whether a segment of it holds '=' (the first such
\* segment is the date partition), and the value that segment gives.
KeyOk == [marker |-> TRUE, raw |-> [fmt |-> "%Y%m%d", day |-> 1]]

TaskKeys ==
    {KeyOk,
     [marker |-> TRUE, raw |-> OtherRaw],
     [marker |-> TRUE, raw |-> Unparsable],
     [marker |-> FALSE, raw |-> Unparsable]}

\* _get_object_key_metadata(object) raises: min([]) of a key with no '='
\* segment, or dateutil's parse of the partition value; both are ValueErrors.
\* The None of get_date_format raises nothing.
key_metadata_raises(k) == ~k.marker \/ ~Parsable(k.raw)

(* ----------------------------- schemas --------------------------------- *)
\* bigquery.SchemaField(name, field_type, mode, fields=()); two fields are
\* equal (and hash alike in a set) when all four agree.
SchemaField(name, type, mode) ==
    [name |-> name, type |-> type, mode |-> mode, fields |-> << >>]

\* A RECORD field; its subfields are leaves, written by their names.
RecordField(name, mode, fields) ==
    [name |-> name, type |-> "RECORD", mode |-> mode, fields |-> fields]

Range(seq) == {seq[i] : i \in 1 .. Len(seq)}

NamesOf(schema) == {f.name : f \in Range(schema)}

\* A field name stands twice in the schema.
HasDuplicate(schema) ==
    \E i, j \in 1 .. Len(schema) : i # j /\ schema[i].name = schema[j].name

\* The lists that hold each element of the set once: the orders in which a
\* Python set can be iterated.
RECURSIVE ListsOf(_)
ListsOf(S) ==
    IF S = {} THEN {<< >>}
    ELSE UNION {{<<x>> \o l : l \in ListsOf(S \ {x})} : x \in S}

\* _compare_columns(col1, col2) on two SchemaFields. When both have subfields
\* it walks col1.fields by index and reads col2.fields[i], an IndexError when
\* col1 has more of them; the results of the walk are collected in a list
\* nobody reads. Every path that returns gives None.
compare_columns(col1, col2) ==
    IF /\ col1.fields # << >>
       /\ col2.fields # << >>
       /\ Len(col1.fields) > Len(col2.fields)
    THEN "IndexError"
    ELSE "None"

\* The value of `if val:` in get_schema_diff.
Truthy(val) == val \notin {"None", "IndexError"}

\* get_schema_diff(schema1, schema2) raises: some d of set(schema2) -
\* set(schema1) is compared with a field o of schema1 of its name (the inner
\* loop breaks only on a truthy val) and _compare_columns raises.
get_schema_diff_raises(s1, s2) ==
    \E d \in Range(s2) \ Range(s1), o \in Range(s1) :
        d.name = o.name /\ compare_columns(d, o) = "IndexError"

\* get_schema_diff(schema1, schema2), when it returns: of set(schema2) -
\* set(schema1), the fields with no field of that name in schema1, or with one
\* that _compare_columns reports as changed.
get_schema_diff(s1, s2) ==
    {d \in Range(s2) \ Range(s1) :
        \/ \E o \in Range(s1) : d.name = o.name /\ Truthy(compare_columns(d, o))
        \/ ~ \E o \in Range(s1) : d.name = o.name}

\* The schema the load job gives the scratch table of a task: the columns of
\* its parquet files. The files of the tasks after the first have one column
\* more.
ScratchSchema(t) ==
    <<SchemaField("a", "STRING", "NULLABLE"),
      SchemaField("b", "INTEGER", "NULLABLE")>>
    \o (IF t = 1 THEN << >> ELSE <<SchemaField("c", "STRING", "NULLABLE")>>)

\* generate_bq_schema: the date partition and the extra partitions of the
\* object key, as REQUIRED fields, before the scratch table's schema.
generate_bq_schema(t) ==
    <<SchemaField("submission_date", "DATE", "REQUIRED"),
      SchemaField("sample_id", "STRING", "REQUIRED")>> \o ScratchSchema(t)

\* The schema of a destination table left by an earlier run, whose files had
\* no column b yet.
EarlierSchema ==
    <<SchemaField("submission_date", "DATE", "REQUIRED"),
      SchemaField("sample_id", "STRING", "REQUIRED"),
      SchemaField("a", "STRING", "NULLABLE")>>

(* ------------------------------ bulk ----------------------------------- *)
\* q.put((bucket_name, dir, object)) of the enqueue loops.
BulkPut ==
    /\ bulkpc = "put"
    /\ nput < nobj
    /\ nput' = nput + 1
    /\ queue' = Append(queue, nput + 1)
    /\ unfinished' = unfinished + 1
    /\ UNCHANGED <<bulkpc, nobj, started, nsent, lock, lockHolder, pc, item,
                   att, raised, destExists, scratch, attempts, faults>>
    /\ UNCHANGED <<schemaVars, keyVars, latestVars, resumeVars,
                   diffVars>>

\* Process(target=_bulk_run, ...); p.start(), once per worker.
BulkStart ==
    /\ bulkpc \in {"put", "start"}
    /\ nput = nobj
    /\ started < Concurrency
    /\ started' = started + 1
    /\ pc' = [pc EXCEPT ![started + 1] = "get"]
    /\ bulkpc' = "start"
    /\ UNCHANGED <<nobj, nput, nsent, queue, unfinished, lock, lockHolder,
                   item, att, raised, destExists, scratch, attempts, faults>>
    /\ UNCHANGED <<schemaVars, keyVars, latestVars, resumeVars,
                   diffVars>>

\* Mutant of BulkJoin: bulk goes on to the sentinels without q.join().
BulkJoin_NoWait ==
    /\ bulkpc = "start"
    /\ started = Concurrency
    /\ bulkpc' = "sentinel"
    /\ UNCHANGED <<nobj, nput, started, nsent, queue, unfinished, lock,
                   lockHolder, pc, item, att, raised, destExists, scratch,
                   attempts, faults>>
    /\ UNCHANGED <<schemaVars, keyVars, latestVars, resumeVars,
                   diffVars>>

\* q.join(): returns once every item put has been acknowledged.
BulkJoin ==
    /\ bulkpc = "start"
    /\ started = Concurrency
    /\ unfinished = 0
    /\ bulkpc' = "sentinel"
    /\ UNCHANGED <<nobj, nput, started, nsent, queue, unfinished, lock,
                   lockHolder, pc, item, att, raised, destExists, scratch,
                   attempts, faults>>
    /\ UNCHANGED <<schemaVars, keyVars, latestVars, resumeVars,
                   diffVars>>

\* q.put(None), once per worker.
BulkSentinel ==
    /\ bulkpc = "sentinel"
    /\ nsent < Concurrency
    /\ nsent' = nsent + 1
    /\ queue' = Append(queue, None)
    /\ unfinished' = unfinished + 1
    /\ bulkpc' = IF nsent + 1 = Concurrency THEN "pjoin" ELSE "sentinel"
    /\ UNCHANGED <<nobj, nput, started, lock, lockHolder, pc, item, att,
                   raised, destExists, scratch, attempts, faults>>
    /\ UNCHANGED <<schemaVars, keyVars, latestVars, resumeVars,
                   diffVars>>

\* p.join(): p is the process the start loop made last.
BulkPJoin ==
    /\ bulkpc = "pjoin"
    /\ pc[Concurrency] \in {"exited", "crashed"}
    /\ bulkpc' = "done"
    /\ UNCHANGED <<nobj, nput, started, nsent, queue, unfinished, lock,
                   lockHolder, pc, item, att, raised, destExists, scratch,
                   attempts, faults>>
    /\ UNCHANGED <<schemaVars, keyVars, latestVars, resumeVars,
                   diffVars>>

(* ----------------------------- _bulk_run ------------------------------- *)
\* q.get() of iter(q.get, None): blocks on an empty queue, leaves the loop on None.
Get(w) ==
    /\ pc[w] = "get"
    /\ queue # << >>
    /\ queue' = Tail(queue)
    /\ item' = [item EXCEPT ![w] = Head(queue)]
    /\ pc' = [pc EXCEPT ![w] = IF Head(queue) = None THEN "last_ack" ELSE "run"]
    /\ raised' = [raised EXCEPT ![w] = "none"]
    /\ UNCHANGED <<bulkpc, nobj, nput, started, nsent, unfinished, lock,
                   lockHolder, att, destExists, scratch, attempts, faults>>
    /\ UNCHANGED <<schemaVars, keyVars, latestVars, resumeVars,
                   diffVars>>

\* Mutant of Requeue: the task is put back at the head of the queue.
Requeue_AtFront(w) ==
    /\ pc[w] = "requeue"
    /\ queue' = <<item[w]>> \o queue
    /\ unfinished' = unfinished + 1
    /\ pc' = [pc EXCEPT ![w] = "ack"]
    /\ UNCHANGED <<bulkpc, nobj, nput, started, nsent, lock, lockHolder, item,
                   att, raised, destExists, scratch, attempts, faults>>
    /\ UNCHANGED <<schemaVars, keyVars, latestVars, resumeVars,
                   diffVars>>

\* Mutant of Requeue: a retry cap, the task is put back after its first
\* GCWarning only.
Requeue_Capped(w) ==
    /\ pc[w] = "requeue"
    /\ IF Cardinality({a \in DOMAIN attempts :
                          /\ attempts[a].task = item[w]
                          /\ attempts[a].end = "transient"}) <= 1
       THEN /\ queue' = Append(queue, item[w])
            /\ unfinished' = unfinished + 1
       ELSE UNCHANGED <<queue, unfinished>>
    /\ pc' = [pc EXCEPT ![w] = "ack"]
    /\ UNCHANGED <<bulkpc, nobj, nput, started, nsent, lock, lockHolder, item,
                   att, raised, destExists, scratch, attempts, faults>>
    /\ UNCHANGED <<schemaVars, keyVars, latestVars, resumeVars,
                   diffVars>>

\* Mutant of Requeue: the except clause logs the warning and puts nothing.
Requeue_Dropped(w) ==
    /\ pc[w] = "requeue"
    /\ pc' = [pc EXCEPT ![w] = "ack"]
    /\ UNCHANGED <<bulkpc, nobj, nput, started, nsent, queue, unfinished,
                   lock, lockHolder, item, att, raised, destExists, scratch,
                   attempts, faults>>
    /\ UNCHANGED <<schemaVars, keyVars, latestVars, resumeVars,
                   diffVars>>

\* except GCWarning: q.put(item)
Requeue(w) ==
    /\ pc[w] = "requeue"
    /\ queue' = Append(queue, item[w])
    /\ unfinished' = unfinished + 1
    /\ pc' = [pc EXCEPT ![w] = "ack"]
    /\ UNCHANGED <<bulkpc, nobj, nput, started, nsent, lock, lockHolder, item,
                   att, raised, destExists, scratch, attempts, faults>>
    /\ UNCHANGED <<schemaVars, keyVars, latestVars, resumeVars,
                   diffVars>>

\* finally: q.task_done(); an exception that is no GCWarning then leaves the
\* for loop and ends the process.
TaskDone(w) ==
    /\ pc[w] = "ack"
    /\ unfinished' = unfinished - 1
    /\ pc' = [pc EXCEPT ![w] = IF raised[w] = "fatal" THEN "crashed" ELSE "get"]
    /\ UNCHANGED <<bulkpc, nobj, nput, started, nsent, queue, lock, lockHolder,
                   item, att, raised, destExists, scratch, attempts, faults>>
    /\ UNCHANGED <<schemaVars, keyVars, latestVars, resumeVars,
                   diffVars>>

\* q.task_done() after the loop: acknowledges the sentinel.
SentinelDone(w) ==
    /\ pc[w] = "last_ack"
    /\ unfinished' = unfinished - 1
    /\ pc' = [pc EXCEPT ![w] = "exited"]
    /\ UNCHANGED <<bulkpc, nobj, nput, started, nsent, queue, lock, lockHolder,
                   item, att, raised, destExists, scratch, attempts, faults>>
    /\ UNCHANGED <<schemaVars, keyVars, latestVars, resumeVars,
                   diffVars>>

(* -------------------------------- run ---------------------------------- *)
\* The queue holds only keys that list_blobs_with_prefix or get_latest_object
\* kept, so the ignore_key return at the top of run() is never taken here.

\* STAGING, first call: the attempt takes a fresh scratch table name
\* (gen_rand_string) and calls create_bq_table(table_id_tmp, DEFAULT_TMP_DATASET).
StagingCreate(w) ==
    /\ pc[w] = "run"
    /\ att' = [att EXCEPT ![w] = Len(attempts) + 1]
    /\ \/ \* line 453: _get_object_key_metadata raises, before any warehouse call
          /\ key_metadata_raises(objkey[item[w]])
          /\ attempts' = Append(attempts,
                                [Failed(NewAttempt(item[w]), "other", "KEY")
                                    EXCEPT !.end = "fatal", !.stage = "KEY"])
          /\ raised' = [raised EXCEPT ![w] = "fatal"]
          /\ pc' = [pc EXCEPT ![w] = "ack"]
          /\ UNCHANGED <<scratch, faults>>
       \/ /\ ~key_metadata_raises(objkey[item[w]])
          /\ attempts' = Append(attempts,
                                [NewAttempt(item[w]) EXCEPT !.created = TRUE])
          /\ scratch' = scratch \cup {Len(attempts) + 1}
          /\ pc' = [pc EXCEPT ![w] = "load"]
          /\ UNCHANGED <<raised, faults>>
       \/ \* InternalServerError, ServiceUnavailable: the except clause
          /\ ~key_metadata_raises(objkey[item[w]])
          /\ MayFail
          /\ faults' = faults + 1
          /\ attempts' = Append(attempts,
                                Failed(NewAttempt(item[w]), "transient", "STAGING"))
          /\ pc' = [pc EXCEPT ![w] = "staging_delete"]
          /\ UNCHANGED <<raised, scratch>>
       \/ \* any other error leaves run()
          /\ ~key_metadata_raises(objkey[item[w]])
          /\ MayFail
          /\ faults' = faults + 1
          /\ attempts' = Append(attempts,
                                [Failed(NewAttempt(item[w]), "other", "STAGING")
                                    EXCEPT !.end = "fatal"])
          /\ raised' = [raised EXCEPT ![w] = "fatal"]
          /\ pc' = [pc EXCEPT ![w] = "ack"]
          /\ UNCHANGED scratch
    /\ UNCHANGED <<bulkpc, nobj, nput, started, nsent, queue, unfinished,
                   lock, lockHolder, item, destExists>>
    /\ UNCHANGED <<schemaVars, keyVars, latestVars, resumeVars,
                   diffVars>>

\* STAGING, second call: load_parquet_to_bq into the scratch table.
StagingLoad(w) ==
    /\ pc[w] = "load"
    /\ \/ /\ pc' = [pc EXCEPT ![w] = "extract"]
          /\ UNCHANGED <<raised, attempts, faults>>
       \/ /\ MayFail
          /\ faults' = faults + 1
          /\ attempts' = [attempts EXCEPT ![att[w]] =
                              Failed(@, "transient", "STAGING")]
          /\ pc' = [pc EXCEPT ![w] = "staging_delete"]
          /\ UNCHANGED raised
       \/ /\ MayFail
          /\ faults' = faults + 1
          /\ Raise(w, "fatal", "STAGING")
    /\ UNCHANGED <<bulkpc, nobj, nput, started, nsent, queue, unfinished,
                   lock, lockHolder, item, att, destExists, scratch>>
    /\ UNCHANGED <<schemaVars, keyVars, latestVars, resumeVars,
                   diffVars>>

\* Mutant of StagingDelete: the except clause deletes the scratch table and
\* does not raise, so run() goes on with the next stage.
StagingDelete_GoesOn(w) ==
    /\ pc[w] = "staging_delete"
    /\ \/ /\ scratch' = scratch \ {att[w]}
          /\ pc' = [pc EXCEPT ![w] = "extract"]
          /\ UNCHANGED <<raised, attempts, faults>>
       \/ /\ MayFail
          /\ faults' = faults + 1
          /\ Raise(w, "fatal", "STAGING")
          /\ UNCHANGED scratch
    /\ UNCHANGED <<bulkpc, nobj, nput, started, nsent, queue, unfinished,
                   lock, lockHolder, item, att, destExists>>
    /\ UNCHANGED <<schemaVars, keyVars, latestVars, resumeVars,
                   diffVars>>

\* The except clause of STAGING: delete_bq_table(table_id_tmp), then
\* raise GCWarning. delete_bq_table swallows NotFound only.
StagingDelete(w) ==
    /\ pc[w] = "staging_delete"
    /\ \/ /\ scratch' = scratch \ {att[w]}
          /\ Raise(w, "GCWarning", "STAGING")
          /\ UNCHANGED faults
       \/ /\ MayFail
          /\ faults' = faults + 1
          /\ Raise(w, "fatal", "STAGING")
          /\ UNCHANGED scratch
    /\ UNCHANGED <<bulkpc, nobj, nput, started, nsent, queue, unfinished,
                   lock, lockHolder, item, att, destExists>>
    /\ UNCHANGED <<schemaVars, keyVars, latestVars, resumeVars,
                   diffVars>>

\* SCHEMA_EXTRACT: generate_bq_schema reads the scratch table's schema.
SchemaExtract(w) ==
    /\ pc[w] = "extract"
    /\ \/ /\ pc' = [pc EXCEPT ![w] = "acquire"]
          /\ attempts' = [attempts EXCEPT ![att[w]].stage = "TABLE_MERGE_LOCKED"]
          /\ UNCHANGED <<raised, faults>>
       \/ /\ MayFail
          /\ faults' = faults + 1
          /\ Raise(w, "GCWarning", "SCHEMA_EXTRACT")
       \/ /\ MayFail
          /\ faults' = faults + 1
          /\ Raise(w, "fatal", "SCHEMA_EXTRACT")
    /\ UNCHANGED <<bulkpc, nobj, nput, started, nsent, queue, unfinished,
                   lock, lockHolder, item, att, destExists, scratch>>
    /\ UNCHANGED <<schemaVars, keyVars, latestVars, resumeVars,
                   diffVars>>

\* Mutant of LockAcquire: the worker does not wait for the Lock to be free.
LockAcquire_NoWait(w) ==
    /\ pc[w] = "acquire"
    /\ lockHolder' = IF lock THEN w ELSE lockHolder
    /\ pc' = [pc EXCEPT ![w] = "check"]
    /\ UNCHANGED <<bulkpc, nobj, nput, started, nsent, queue, unfinished,
                   lock, item, att, raised, destExists, scratch, attempts,
                   faults>>
    /\ UNCHANGED <<schemaVars, keyVars, latestVars, resumeVars,
                   diffVars>>

\* TABLE_MERGE_LOCKED: `if lock: lock.acquire()`; with lock None the worker
\* goes straight to create_primary_bq_table.
LockAcquire(w) ==
    /\ pc[w] = "acquire"
    /\ IF lock
         THEN lockHolder = Free /\ lockHolder' = w
         ELSE UNCHANGED lockHolder
    /\ pc' = [pc EXCEPT ![w] = "check"]
    /\ UNCHANGED <<bulkpc, nobj, nput, started, nsent, queue, unfinished,
                   lock, item, att, raised, destExists, scratch, attempts, faults>>
    /\ UNCHANGED <<schemaVars, keyVars, latestVars, resumeVars,
                   diffVars>>

\* create_primary_bq_table, the check: `if not check_bq_table_exists(...)`.
\* An error of get_table other than NotFound leaves run() through the finally
\* clause that releases the lock.
CheckExists(w) ==
    /\ pc[w] = "check"
    /\ \/ /\ destExists
          /\ attempts' = [attempts EXCEPT ![att[w]].create = "exists",
                                          ![att[w]].stage = "SCHEMA_EVOLVE"]
          /\ pc' = [pc EXCEPT ![w] = "evolve"]
          /\ lockHolder' = Released(w)
          /\ UNCHANGED <<raised, faults>>
       \/ /\ ~destExists
          /\ pc' = [pc EXCEPT ![w] = "create"]
          /\ UNCHANGED <<lockHolder, raised, attempts, faults>>
       \/ /\ MayFail
          /\ faults' = faults + 1
          /\ \E e \in ErrorClasses : RaiseError(w, e, "fatal", "TABLE_MERGE_LOCKED")
          /\ lockHolder' = Released(w)
    /\ UNCHANGED <<bulkpc, nobj, nput, started, nsent, queue, unfinished,
                   lock, item, att, destExists, scratch>>
    /\ UNCHANGED <<schemaVars, keyVars, latestVars, resumeVars,
                   diffVars>>

\* Mutant of CreatePrimary: the Conflict is treated as a retryable error, the
\* attempt ends with a GCWarning.
CreatePrimary_ConflictRetried(w) ==
    /\ pc[w] = "create"
    /\ \/ /\ ~destExists
          /\ destExists' = TRUE
          /\ destSchema' = generate_bq_schema(item[w])
          /\ attempts' = [attempts EXCEPT ![att[w]].create = "created",
                                          ![att[w]].stage = "SCHEMA_EVOLVE"]
          /\ pc' = [pc EXCEPT ![w] = "evolve"]
          /\ UNCHANGED <<raised, faults>>
       \/ /\ destExists
          /\ raised' = [raised EXCEPT ![w] = "GCWarning"]
          /\ attempts' = [attempts EXCEPT ![att[w]] =
                              [Failed(@, "other", "TABLE_MERGE_LOCKED")
                                  EXCEPT !.create = "conflict",
                                         !.end = "transient"]]
          /\ pc' = [pc EXCEPT ![w] = "requeue"]
          /\ UNCHANGED <<destExists, destSchema, faults>>
       \/ /\ MayFail
          /\ faults' = faults + 1
          /\ \E e \in ErrorClasses : RaiseError(w, e, "fatal", "TABLE_MERGE_LOCKED")
          /\ UNCHANGED <<destExists, destSchema>>
    /\ lockHolder' = Released(w)
    /\ UNCHANGED <<bulkpc, nobj, nput, started, nsent, queue, unfinished,
                   lock, item, att, scratch>>
    /\ UNCHANGED <<additions, tableRead, keyVars, latestVars, resumeVars,
                   diffVars>>

\* Mutant of CreatePrimary: no `except Conflict: pass`, the Conflict leaves run().
CreatePrimary_ConflictRaised(w) ==
    /\ pc[w] = "create"
    /\ \/ /\ ~destExists
          /\ destExists' = TRUE
          /\ destSchema' = generate_bq_schema(item[w])
          /\ attempts' = [attempts EXCEPT ![att[w]].create = "created",
                                          ![att[w]].stage = "SCHEMA_EVOLVE"]
          /\ pc' = [pc EXCEPT ![w] = "evolve"]
          /\ UNCHANGED <<raised, faults>>
       \/ /\ destExists
          /\ raised' = [raised EXCEPT ![w] = "fatal"]
          /\ attempts' = [attempts EXCEPT ![att[w]].create = "conflict",
                                          ![att[w]].end = "fatal"]
          /\ pc' = [pc EXCEPT ![w] = "ack"]
          /\ UNCHANGED <<destExists, destSchema, faults>>
       \/ /\ MayFail
          /\ faults' = faults + 1
          /\ \E e \in ErrorClasses : RaiseError(w, e, "fatal", "TABLE_MERGE_LOCKED")
          /\ UNCHANGED <<destExists, destSchema>>
    /\ lockHolder' = Released(w)
    /\ UNCHANGED <<bulkpc, nobj, nput, started, nsent, queue, unfinished,
                   lock, item, att, scratch>>
    /\ UNCHANGED <<additions, tableRead, keyVars, latestVars, resumeVars,
                   diffVars>>

\* create_primary_bq_table, the create: create_bq_table of the destination
\* table; the warehouse answers Conflict when the table exists by now, and
\* `except Conflict: pass` goes on. The finally clause releases the lock.
CreatePrimary(w) ==
    /\ pc[w] = "create"
    /\ \/ /\ ~destExists
          /\ destExists' = TRUE
          /\ destSchema' = generate_bq_schema(item[w])
          /\ attempts' = [attempts EXCEPT ![att[w]].create = "created",
                                          ![att[w]].stage = "SCHEMA_EVOLVE"]
          /\ pc' = [pc EXCEPT ![w] = "evolve"]
          /\ UNCHANGED <<raised, faults>>
       \/ /\ destExists
          /\ attempts' = [attempts EXCEPT ![att[w]].create = "conflict",
                                          ![att[w]].stage = "SCHEMA_EVOLVE"]
          /\ pc' = [pc EXCEPT ![w] = "evolve"]
          /\ UNCHANGED <<raised, destExists, destSchema, faults>>
       \/ /\ MayFail
          /\ faults' = faults + 1
          /\ \E e \in ErrorClasses : RaiseError(w, e, "fatal", "TABLE_MERGE_LOCKED")
          /\ UNCHANGED <<destExists, destSchema>>
    /\ lockHolder' = Released(w)
    /\ UNCHANGED <<bulkpc, nobj, nput, started, nsent, queue, unfinished,
                   lock, item, att, scratch>>
    /\ UNCHANGED <<additions, tableRead, keyVars, latestVars, resumeVars,
                   diffVars>>

\* Mutant of SchemaEvolve: the schemas are not compared, run() goes on to the
\* append with the destination table as it is.
SchemaEvolve_Skipped(w) ==
    /\ pc[w] = "evolve"
    /\ pc' = [pc EXCEPT ![w] = "merge"]
    /\ attempts' = [attempts EXCEPT ![att[w]].stage = "QUERY_MERGE"]
    /\ UNCHANGED <<raised, faults, additions>>
    /\ UNCHANGED <<bulkpc, nobj, nput, started, nsent, queue, unfinished,
                   lock, lockHolder, item, att, destExists, scratch>>
    /\ UNCHANGED <<destSchema, tableRead, keyVars, latestVars, resumeVars,
                   diffVars>>

\* SCHEMA_EVOLVE, lines 514-518: get_bq_table_schema, get_schema_diff and
\* `if len(schema_additions) > 0`; no error of these calls is caught.
SchemaEvolve(w) ==
    /\ pc[w] = "evolve"
    /\ \/ /\ ~get_schema_diff_raises(destSchema, generate_bq_schema(item[w]))
          /\ get_schema_diff(destSchema, generate_bq_schema(item[w])) = {}
          /\ pc' = [pc EXCEPT ![w] = "merge"]
          /\ attempts' = [attempts EXCEPT ![att[w]].stage = "QUERY_MERGE"]
          /\ UNCHANGED <<raised, faults, additions>>
       \/ /\ ~get_schema_diff_raises(destSchema, generate_bq_schema(item[w]))
          /\ get_schema_diff(destSchema, generate_bq_schema(item[w])) # {}
          /\ additions' = [additions EXCEPT ![w] =
                  get_schema_diff(destSchema, generate_bq_schema(item[w]))]
          /\ pc' = [pc EXCEPT ![w] = "update_get"]
          /\ UNCHANGED <<raised, faults, attempts>>
       \/ \* the IndexError of _compare_columns; the schemas of this pool are
          \* flat, so it is raised in the specification of get_schema_diff only
          /\ get_schema_diff_raises(destSchema, generate_bq_schema(item[w]))
          /\ RaiseError(w, "other", "fatal", "SCHEMA_EVOLVE")
          /\ UNCHANGED <<faults, additions>>
       \/ /\ MayFail
          /\ faults' = faults + 1
          /\ \E e \in ErrorClasses : RaiseError(w, e, "fatal", "SCHEMA_EVOLVE")
          /\ UNCHANGED additions
    /\ UNCHANGED <<bulkpc, nobj, nput, started, nsent, queue, unfinished,
                   lock, lockHolder, item, att, destExists, scratch>>
    /\ UNCHANGED <<destSchema, tableRead, keyVars, latestVars, resumeVars,
                   diffVars>>

\* update_bq_table_schema, client.get_table: the table as it is now.
UpdateGetTable(w) ==
    /\ pc[w] = "update_get"
    /\ \/ /\ tableRead' = [tableRead EXCEPT ![w] = destSchema]
          /\ pc' = [pc EXCEPT ![w] = "update_put"]
          /\ UNCHANGED <<raised, faults, attempts>>
       \/ /\ MayFail
          /\ faults' = faults + 1
          /\ \E e \in ErrorClasses : RaiseError(w, e, "fatal", "SCHEMA_EVOLVE")
          /\ UNCHANGED tableRead
    /\ UNCHANGED <<bulkpc, nobj, nput, started, nsent, queue, unfinished,
                   lock, lockHolder, item, att, destExists, scratch>>
    /\ UNCHANGED <<destSchema, additions, keyVars, latestVars, resumeVars,
                   diffVars>>

\* Mutant of NewSchemas: new_schema starts empty instead of as a copy of
\* table.schema, so the update carries the additions only.
NewSchemas_AdditionsOnly(w) == ListsOf(additions[w])

\* new_schema of update_bq_table_schema: table.schema[:] with the additions
\* appended, in an order the set difference of get_schema_diff gives them.
NewSchemas(w) == {tableRead[w] \o l : l \in ListsOf(additions[w])}

\* The warehouse takes the update when the table is as get_table returned it
\* (the etag client.update_table sends) and no field name stands twice.
Accepted(w, new_schema) ==
    tableRead[w] = destSchema /\ ~HasDuplicate(new_schema)

\* update_bq_table_schema, client.update_table(table, ['schema']).
UpdateTable(w) ==
    /\ pc[w] = "update_put"
    /\ \E new_schema \in NewSchemas(w) :
          \/ /\ Accepted(w, new_schema)
             /\ destSchema' = new_schema
             /\ attempts' = [attempts EXCEPT ![att[w]].altered = TRUE,
                                             ![att[w]].stage = "QUERY_MERGE"]
             /\ pc' = [pc EXCEPT ![w] = "merge"]
             /\ UNCHANGED <<raised, faults>>
          \/ /\ ~Accepted(w, new_schema)
             /\ RaiseError(w, "other", "fatal", "SCHEMA_EVOLVE")
             /\ UNCHANGED <<destSchema, faults>>
          \/ /\ MayFail
             /\ faults' = faults + 1
             /\ \E e \in ErrorClasses : RaiseError(w, e, "fatal", "SCHEMA_EVOLVE")
             /\ UNCHANGED destSchema
    /\ UNCHANGED <<bulkpc, nobj, nput, started, nsent, queue, unfinished,
                   lock, lockHolder, item, att, destExists, scratch>>
    /\ UNCHANGED <<additions, tableRead, keyVars, latestVars, resumeVars,
                   diffVars>>

\* QUERY_MERGE: load_bq_query_to_table appends the scratch rows to the
\* destination; the finally clause (Cleanup) runs whatever it raised.
QueryMerge(w) ==
    /\ pc[w] = "merge"
    /\ \/ /\ attempts' = [attempts EXCEPT ![att[w]].merged = TRUE,
                                          ![att[w]].stage = "CLEANUP"]
          /\ UNCHANGED <<raised, faults>>
       \/ /\ MayFail
          /\ faults' = faults + 1
          /\ raised' = [raised EXCEPT ![w] = "GCWarning"]
          /\ attempts' = [attempts EXCEPT ![att[w]] =
                              Failed(@, "transient", "QUERY_MERGE")]
       \/ /\ MayFail
          /\ faults' = faults + 1
          /\ raised' = [raised EXCEPT ![w] = "fatal"]
          /\ attempts' = [attempts EXCEPT ![att[w]] =
                              Failed(@, "other", "QUERY_MERGE")]
    /\ pc' = [pc EXCEPT ![w] = "cleanup"]
    /\ UNCHANGED <<bulkpc, nobj, nput, started, nsent, queue, unfinished,
                   lock, lockHolder, item, att, destExists, scratch>>
    /\ UNCHANGED <<schemaVars, keyVars, latestVars, resumeVars,
                   diffVars>>

\* Mutant of Cleanup: a transient service error of the delete in the finally
\* clause is turned into a GCWarning, like the errors of the append.
Cleanup_Retried(w) ==
    /\ pc[w] = "cleanup"
    /\ \/ /\ scratch' = scratch \ {att[w]}
          /\ attempts' = [attempts EXCEPT ![att[w]].end =
                              CASE raised[w] = "none" -> "ok"
                                [] raised[w] = "GCWarning" -> "transient"
                                [] OTHER -> "fatal"]
          /\ pc' = [pc EXCEPT ![w] =
                        IF raised[w] = "GCWarning" THEN "requeue" ELSE "ack"]
          /\ UNCHANGED <<raised, faults>>
       \/ /\ MayFail
          /\ faults' = faults + 1
          /\ \E e \in ErrorClasses :
                RaiseError(w, e, IF e = "transient" THEN "GCWarning" ELSE "fatal",
                           "CLEANUP")
          /\ UNCHANGED scratch
    /\ UNCHANGED <<bulkpc, nobj, nput, started, nsent, queue, unfinished,
                   lock, lockHolder, item, att, destExists>>
    /\ UNCHANGED <<schemaVars, keyVars, latestVars, resumeVars,
                   diffVars>>

\* CLEANUP: `finally: delete_bq_table(table_id_tmp)`; an error of the delete
\* replaces whatever the try block raised.
Cleanup(w) ==
    /\ pc[w] = "cleanup"
    /\ \/ /\ scratch' = scratch \ {att[w]}
          /\ attempts' = [attempts EXCEPT ![att[w]].end =
                              CASE raised[w] = "none" -> "ok"
                                [] raised[w] = "GCWarning" -> "transient"
                                [] OTHER -> "fatal"]
          /\ pc' = [pc EXCEPT ![w] =
                        IF raised[w] = "GCWarning" THEN "requeue" ELSE "ack"]
          /\ UNCHANGED <<raised, faults>>
       \/ /\ MayFail
          /\ faults' = faults + 1
          /\ \E e \in ErrorClasses : RaiseError(w, e, "fatal", "CLEANUP")
          /\ UNCHANGED scratch
    /\ UNCHANGED <<bulkpc, nobj, nput, started, nsent, queue, unfinished,
                   lock, lockHolder, item, att, destExists>>
    /\ UNCHANGED <<schemaVars, keyVars, latestVars, resumeVars,
                   diffVars>>

(* ------------------------------ dicts ---------------------------------- *)
\* A dict is the sequence of its <<key, value>> items in insertion order.
DictKeys(d) == {d[i][1] : i \in 1 .. Len(d)}

DictGet(d, k) == LET i == CHOOSE i \in 1 .. Len(d) : d[i][1] = k IN d[i][2]

\* d[k] = v: a new key goes last, a known key keeps its place.
DictSet(d, k, v) ==
    IF k \in DictKeys(d)
      THEN [i \in 1 .. Len(d) |-> IF d[i][1] = k THEN <<k, v>> ELSE d[i]]
      ELSE Append(d, <<k, v>>)

\* del d[k] inside try/except KeyError: an unknown key changes nothing.
DictDel(d, k) == SelectSeq(d, LAMBDA kv : kv[1] # k)

(* ------------------------- get_latest_object --------------------------- *)
\* The object names of one directory; '_SUCCESS' matches the IGNORE_PATTERNS
\* entry for temp files, r'.*/_[^/]*$'.
FileNames == {"part-0.parquet", "part-1.parquet", "part-2.parquet", "_SUCCESS"}

ignore_key(blob) == blob.file = "_SUCCESS"

\* The directories of the listings: the partitions of one day of one table.
ListedDirs == {d \in Dirs : d.raw = [fmt |-> "%Y%m%d", day |-> 1]}

Blobs == [dir : ListedDirs, file : FileNames, updated : 1 .. MaxTime]

\* Mutant of LatestStep: the comparison is turned round.
LatestStep_Oldest ==
    /\ bi < Len(blobs)
    /\ bi' = bi + 1
    /\ LET blob == blobs[bi + 1]
           dir  == blob.dir
       IN  IF ignore_key(blob)
             THEN UNCHANGED <<latest_objects, latest_objects_tmp>>
             ELSE IF dir \in DictKeys(latest_objects_tmp)
                       /\ ~(DictGet(latest_objects_tmp, dir) > blob.updated)
                    THEN UNCHANGED <<latest_objects, latest_objects_tmp>>
                    ELSE /\ latest_objects_tmp' =
                               DictSet(latest_objects_tmp, dir, blob.updated)
                         /\ latest_objects' =
                               DictSet(latest_objects, dir,
                                       [dir |-> dir, file |-> blob.file])
    /\ UNCHANGED <<blobs, poolVars, resumeVars, diffVars>>

\* One turn of `for blob in blobs`. latest_objects_tmp.get(dir) is falsy only
\* for a directory not seen yet: a datetime is never falsy.
LatestStep ==
    /\ bi < Len(blobs)
    /\ bi' = bi + 1
    /\ LET blob == blobs[bi + 1]
           dir  == blob.dir
       IN  IF ignore_key(blob)
             THEN UNCHANGED <<latest_objects, latest_objects_tmp>>
             ELSE IF dir \in DictKeys(latest_objects_tmp)
                       /\ ~(DictGet(latest_objects_tmp, dir) < blob.updated)
                    THEN UNCHANGED <<latest_objects, latest_objects_tmp>>
                    ELSE /\ latest_objects_tmp' =
                               DictSet(latest_objects_tmp, dir, blob.updated)
                         /\ latest_objects' =
                               DictSet(latest_objects, dir,
                                       [dir |-> dir, file |-> blob.file])
    /\ UNCHANGED <<blobs, poolVars, resumeVars, diffVars>>

(* ----------------------- remove_loaded_objects ------------------------- *)
\* The row run() appends for a directory: CAST('<date>' AS DATE) as <field>,
\* '<value>' as <part>.
RowOf(dir) == [date |-> parse(dir.raw), value |-> dir.value]

\* get_bq_table_partitions: one '<field>=<date>/<part>=<value>' path per
\* group of rows; a DATE column prints as YYYY-MM-DD.
get_bq_table_partitions(date_partition, partitions, rows) ==
    {[field |-> date_partition[1],
      raw   |-> strftime(r.date, "%Y-%m-%d"),
      part  |-> partitions[1][1],
      value |-> r.value] : r \in rows}

\* The key remove_loaded_objects rebuilds from a path: the date rendered in
\* the date format of the first object, behind that object's path prefix.
RebuiltKey(meta, path) ==
    [prefix |-> meta.path_prefix,
     field  |-> meta.date_partition[1],
     raw    |-> strftime(parse(path.raw), meta.date_format),
     part   |-> path.part,
     value  |-> path.value]

RECURSIVE DelAll(_, _)
\* for path in object_paths: del objects[key]
DelAll(d, keys) ==
    IF keys = {} THEN d
    ELSE LET k == CHOOSE k \in keys : TRUE
         IN  DelAll(DictDel(d, k), keys \ {k})

RECURSIVE MarkAll(_, _)
\* for path in object_paths: objects[key] = None
MarkAll(d, keys) ==
    IF keys = {} THEN d
    ELSE LET k == CHOOSE k \in keys : TRUE
         IN  MarkAll(DictSet(d, k, [dir |-> k, file |-> "None"]), keys \ {k})

\* Mutant of remove_loaded_objects: the loaded keys are marked, not deleted.
remove_loaded_objects_Marked(objs, exists, rows) ==
    LET meta == get_object_key_metadata(objs[1][1])
        object_paths == get_bq_table_partitions(meta.date_partition,
                                                meta.partitions, rows)
    IN  IF ~exists THEN objs
        ELSE MarkAll(objs, {RebuiltKey(meta, path) : path \in object_paths})

\* remove_loaded_objects(objects, dataset, alias) on a non-empty dict.
remove_loaded_objects(objs, exists, rows) ==
    LET meta == get_object_key_metadata(objs[1][1])
        object_paths == get_bq_table_partitions(meta.date_partition,
                                                meta.partitions, rows)
    IN  IF ~exists THEN objs
        ELSE DelAll(objs, {RebuiltKey(meta, path) : path \in object_paths})

\* `objects = remove_loaded_objects(objects, _dest_dataset, alias)` of bulk.
RemoveLoaded ==
    /\ rpc = "call"
    /\ objects' = remove_loaded_objects(objects, tableExists, tableRows)
    /\ rpc' = "returned"
    /\ UNCHANGED <<candidates, tableExists, tableRows, poolVars, latestVars,
                   diffVars>>

(* ------------------------- the bulk specification ---------------------- *)
PoolStart ==
    /\ bulkpc = "put"
    /\ nobj \in 0 .. MaxTasks
    /\ nput = 0
    /\ started = 0
    /\ nsent = 0
    /\ queue = << >>
    /\ unfinished = 0
    /\ lock \in BOOLEAN
    /\ lockHolder = Free
    /\ pc = [w \in Workers |-> "unstarted"]
    /\ item = [w \in Workers |-> None]
    /\ att = [w \in Workers |-> 0]
    /\ raised = [w \in Workers |-> "none"]
    /\ destExists \in BOOLEAN
    /\ destSchema = (IF destExists THEN EarlierSchema ELSE << >>)
    /\ additions = [w \in Workers |-> {}]
    /\ tableRead = [w \in Workers |-> << >>]
    /\ scratch = {}
    /\ attempts = << >>
    /\ faults = 0

\* bulk called on a prefix whose object keys are all well formed.
PoolInit ==
    /\ PoolStart
    /\ objkey = [t \in Tasks |-> KeyOk]

\* The dicts of the object of a directory, for a sequence of directories.
DictOf(dirs) ==
    [i \in 1 .. Len(dirs) |->
        <<dirs[i], [dir |-> dirs[i], file |-> "part-0.parquet"]>>]

\* No listing is being read.
LatestIdle ==
    /\ blobs = << >>
    /\ bi = 0
    /\ latest_objects = << >>
    /\ latest_objects_tmp = << >>

\* No resume filter is being applied.
ResumeIdle ==
    /\ rpc = "returned"
    /\ candidates = << >>
    /\ objects = << >>
    /\ tableExists = FALSE
    /\ tableRows = {}

\* No schemas are being compared.
DiffIdle ==
    /\ schema1 = << >>
    /\ schema2 = << >>
    /\ dpc = "returned"
    /\ diff = {}

\* bulk and its workers, the queue filled with nobj tasks.
Init == PoolInit /\ LatestIdle /\ ResumeIdle /\ DiffIdle

WorkerStep(w) ==
    \/ Get(w)
    \/ StagingCreate(w)
    \/ StagingLoad(w)
    \/ StagingDelete(w)
    \/ SchemaExtract(w)
    \/ LockAcquire(w)
    \/ CheckExists(w)
    \/ CreatePrimary(w)
    \/ SchemaEvolve(w)
    \/ UpdateGetTable(w)
    \/ UpdateTable(w)
    \/ QueryMerge(w)
    \/ Cleanup(w)
    \/ Requeue(w)
    \/ TaskDone(w)
    \/ SentinelDone(w)

Next ==
    \/ BulkPut
    \/ BulkStart
    \/ BulkJoin
    \/ BulkSentinel
    \/ BulkPJoin
    \/ \E w \in Workers : WorkerStep(w)

Spec == Init /\ [][Next]_vars

\* The processes are scheduled fairly: bulk and every started worker take
\* their next step when they can take one for good (the operating system runs
\* every process that is not blocked in q.get, q.join, lock.acquire or p.join).
Fairness ==
    /\ WF_vars(BulkPut)
    /\ WF_vars(BulkStart)
    /\ WF_vars(BulkJoin)
    /\ WF_vars(BulkSentinel)
    /\ WF_vars(BulkPJoin)
    /\ \A w \in Workers : WF_vars(WorkerStep(w))

SpecFair == Init /\ [][Next]_vars /\ Fairness

\* bulk with the Lock on a prefix that may hold any object key.
InitKeys ==
    /\ PoolStart
    /\ lock
    /\ objkey \in [Tasks -> TaskKeys]
    /\ LatestIdle
    /\ ResumeIdle
    /\ DiffIdle

SpecKeys == InitKeys /\ [][Next]_vars

(* ------------------- the get_latest_object specification --------------- *)
\* The listings: up to MaxBlobs objects with distinct names.
Listings ==
    UNION {{l \in [1 .. n -> Blobs] :
               \A i, j \in 1 .. n :
                   i # j => <<l[i].dir, l[i].file>> # <<l[j].dir, l[j].file>>}
           : n \in 0 .. MaxBlobs}

PoolIdle ==
    /\ bulkpc = "put"
    /\ nobj = 0
    /\ nput = 0
    /\ started = 0
    /\ nsent = 0
    /\ queue = << >>
    /\ unfinished = 0
    /\ lock = TRUE
    /\ lockHolder = Free
    /\ pc = [w \in Workers |-> "unstarted"]
    /\ item = [w \in Workers |-> None]
    /\ att = [w \in Workers |-> 0]
    /\ raised = [w \in Workers |-> "none"]
    /\ destExists = FALSE
    /\ destSchema = << >>
    /\ additions = [w \in Workers |-> {}]
    /\ tableRead = [w \in Workers |-> << >>]
    /\ scratch = {}
    /\ attempts = << >>
    /\ faults = 0
    /\ objkey = [t \in Tasks |-> KeyOk]

InitLatest ==
    /\ blobs \in Listings
    /\ bi = 0
    /\ latest_objects = << >>
    /\ latest_objects_tmp = << >>
    /\ PoolIdle
    /\ ResumeIdle
    /\ DiffIdle

NextLatest == LatestStep

SpecLatest == InitLatest /\ [][NextLatest]_vars

(* ----------------- the remove_loaded_objects specification ------------- *)
\* The candidate dicts: up to MaxDirs distinct directories, in any order.
DirSeqs ==
    UNION {{l \in [1 .. n -> Dirs] : \A i, j \in 1 .. n : i # j => l[i] # l[j]}
           : n \in 1 .. MaxDirs}

\* The destination table after an earlier run over the same directories that
\* merged some of them (none, when the table does not exist).
InitResume ==
    /\ rpc = "call"
    /\ \E dirs \in DirSeqs :
          /\ candidates = DictOf(dirs)
          /\ objects = DictOf(dirs)
          /\ \E merged \in SUBSET {dirs[i] : i \in 1 .. Len(dirs)} :
                 /\ tableRows = {RowOf(d) : d \in merged}
                 /\ tableExists \in (IF merged = {} THEN BOOLEAN ELSE {TRUE})
    /\ PoolIdle
    /\ LatestIdle
    /\ DiffIdle

NextResume == RemoveLoaded

SpecResume == InitResume /\ [][NextResume]_vars

(* -------------------- the get_schema_diff specification ---------------- *)
\* The fields a schema is made of: a flat column in both types and modes, and
\* a RECORD column with one or two subfields.
Fields ==
    {SchemaField("a", t, m) : t \in {"STRING", "INTEGER"},
                              m \in {"REQUIRED", "NULLABLE"}}
    \cup {SchemaField("b", "INTEGER", "NULLABLE")}
    \cup {RecordField("r", "NULLABLE", subs) : subs \in {<<"x">>, <<"x", "y">>}}

\* The schemas of at most MaxFields fields.
RECURSIVE Schemas(_)
Schemas(n) ==
    IF n = 0 THEN {<< >>}
    ELSE Schemas(n - 1)
         \cup {Append(s, f) : s \in {t \in Schemas(n - 1) : Len(t) = n - 1},
                              f \in Fields}

\* get_schema_diff(schema1, schema2) is called and returns its list, or the
\* IndexError of _compare_columns leaves it.
SchemaDiff ==
    /\ dpc = "called"
    /\ \/ /\ ~get_schema_diff_raises(schema1, schema2)
          /\ diff' = get_schema_diff(schema1, schema2)
          /\ dpc' = "returned"
       \/ /\ get_schema_diff_raises(schema1, schema2)
          /\ dpc' = "raised"
          /\ UNCHANGED diff
    /\ UNCHANGED <<schema1, schema2, poolVars, latestVars, resumeVars>>

InitDiff ==
    /\ schema1 \in Schemas(MaxFields)
    /\ schema2 \in Schemas(MaxFields)
    /\ dpc = "called"
    /\ diff = {}
    /\ PoolIdle
    /\ LatestIdle
    /\ ResumeIdle

NextDiff == SchemaDiff

SpecDiff == InitDiff /\ [][NextDiff]_vars

(* ------------------------------ claims --------------------------------- *)
AttemptIds == DOMAIN attempts

\* Worker w holds a task it took and has not acknowledged yet.
Processing(w) ==
    pc[w] \in {"run", "load", "staging_delete", "extract", "acquire", "check",
               "create", "evolve", "update_get", "update_put", "merge",
               "cleanup", "requeue", "ack"}

\* A task is in the queue or being processed.
TaskPending ==
    \/ \E i \in 1 .. Len(queue) : queue[i] # None
    \/ \E w \in Workers : Processing(w)

\* How often item x stands in the queue.
Occurrences(x) == Cardinality({i \in 1 .. Len(queue) : queue[i] = x})

\* C1: when run() raises an error that is no GCWarning, the worker
\* acknowledges the task once and goes back to q.get(): the fatal error of a
\* task does not end the worker.
C1_FatalErrorKeepsWorker ==
    [][\A w \in Workers :
         (pc[w] = "ack" /\ raised[w] = "fatal" /\ pc'[w] # "ack")
            => (unfinished' = unfinished - 1 /\ pc'[w] = "get")]_vars

\* C2: the scratch table of an attempt that ended with success, with a
\* transient failure, or with a fatal error raised after STAGING, is gone.
C2_ScratchDeletedAtEnd ==
    \A a \in AttemptIds :
        ( /\ attempts[a].created
          /\ \/ attempts[a].end \in {"ok", "transient"}
             \/ attempts[a].end = "fatal" /\ attempts[a].stage # "STAGING" )
        => a \notin scratch

\* C3: of the workers that race to create the destination table exactly one
\* creates it: at most one create succeeds, every attempt that left
\* create_primary_bq_table without an error finds the table there, every
\* attempt that sent the create finds it created by exactly one attempt, and
\* no attempt that got the Conflict ended there.
C3_OneCreateNoRaceFatal ==
    /\ Cardinality({a \in AttemptIds : attempts[a].create = "created"}) <= 1
    /\ \A a \in AttemptIds :
          attempts[a].create # "none" => destExists
    /\ \A a \in AttemptIds :
          attempts[a].create \in {"created", "conflict"}
             => Cardinality({b \in AttemptIds :
                                 attempts[b].create = "created"}) = 1
    /\ \A a \in AttemptIds :
          attempts[a].create = "conflict"
             => attempts[a].stage # "TABLE_MERGE_LOCKED"

\* C3 witness: two attempts raced, one created the table, the other got the
\* Conflict and went on to the append.
C3_Witness ==
    \E a, b \in AttemptIds :
        /\ attempts[a].create = "created"
        /\ attempts[b].create = "conflict"
        /\ attempts[b].merged

\* C4: every transient failure of an attempt of task t puts exactly one
\* further entry of t on the queue: the entries of t ever put (those still in
\* the queue and those taken) are the one bulk put plus one per attempt of t
\* that ended with GCWarning and has passed its except clause.
C4_RequeuedExactlyOnce ==
    \A t \in Tasks :
        Occurrences(t)
          + Cardinality({w \in Workers : pc[w] = "run" /\ item[w] = t})
          + Cardinality({a \in AttemptIds : attempts[a].task = t})
        = (IF t <= nput THEN 1 ELSE 0)
          + Cardinality({a \in AttemptIds :
                            attempts[a].task = t /\ attempts[a].end = "transient"})
          - Cardinality({w \in Workers : pc[w] = "requeue" /\ item[w] = t})

\* C4 witness: a task failed transiently twice and stands in the queue again.
C4_Witness ==
    \E t \in Tasks :
        /\ Cardinality({a \in AttemptIds :
                           attempts[a].task = t /\ attempts[a].end = "transient"}) = 2
        /\ Occurrences(t) = 1
        /\ \A w \in Workers : ~Processing(w)

\* C5: once q.join() has returned (so from the first sentinel on) no task is
\* in the queue or being processed, and a worker that took a sentinel took it
\* with no task pending.
C5_SentinelsAfterAllAcknowledged ==
    /\ (bulkpc \in {"sentinel", "pjoin", "done"} \/ nsent > 0) => ~TaskPending
    /\ \A w \in Workers : pc[w] \in {"last_ack", "exited"} => ~TaskPending

\* C5 witness: the first sentinel is on the queue after a run in which a
\* task was re-enqueued.
C5_Witness ==
    /\ nsent = 1
    /\ nobj = MaxTasks
    /\ \E a \in AttemptIds : attempts[a].end = "transient"

\* C6: bulk returns only when every worker it started has exited.
C6_ReturnsAfterAllWorkersExit ==
    bulkpc = "done" => \A w \in Workers : pc[w] \in {"exited", "crashed"}

\* C10: with the Lock of bulk, at most one worker is inside
\* create_primary_bq_table (existence check to end of create) at a time.
C10_CreateSerialized ==
    lock => Cardinality({w \in Workers : pc[w] \in {"check", "create"}}) <= 1

\* C10 witness: one worker is at the create call while another waits for the Lock.
C10_Witness ==
    /\ lock
    /\ \E w, v \in Workers :
          pc[w] = "create" /\ lockHolder = w /\ pc[v] = "acquire"

\* The blobs of directory dir that get_latest_object does not ignore.
Kept(dir) == {i \in 1 .. Len(blobs) : blobs[i].dir = dir /\ ~ignore_key(blobs[i])}

\* C7: remove_loaded_objects returns a dict whose keys are keys of its
\* argument, each with the value it had, and returns its argument as it was
\* when the destination table does not exist.
C7_ResumeFilterIsFilter ==
    (rpc = "returned" /\ candidates # << >>)
       => /\ DictKeys(objects) \subseteq DictKeys(candidates)
          /\ \A k \in DictKeys(objects) :
                DictGet(objects, k) = DictGet(candidates, k)
          /\ ~tableExists => objects = candidates

\* C7 witness: the filter returned after deleting some keys and keeping others.
C7_Witness ==
    /\ rpc = "returned"
    /\ tableExists
    /\ objects # << >>
    /\ Len(objects) < Len(candidates)

\* C8: with the destination table in place, the Resume Filter removes a
\* candidate directory exactly when the (date, extra partition value) tuple
\* of the directory is in the destination table.
C8_RemovesExactlyLoaded ==
    (rpc = "returned" /\ tableExists)
       => \A k \in DictKeys(candidates) :
             k \notin DictKeys(objects) <=> RowOf(k) \in tableRows

\* C9: when get_latest_object returns, every directory with an object that
\* is not ignored has exactly one entry, and the entry names one of the
\* directory's kept objects with the greatest `updated` among them.
C9_LatestPerDirectory ==
    bi = Len(blobs)
       => \A dir \in ListedDirs :
             Kept(dir) # {}
                => /\ Cardinality({i \in 1 .. Len(latest_objects) :
                                      latest_objects[i][1] = dir}) = 1
                   /\ \E i \in Kept(dir) :
                         /\ DictGet(latest_objects, dir) =
                               [dir |-> dir, file |-> blobs[i].file]
                         /\ \A j \in Kept(dir) :
                               blobs[j].updated <= blobs[i].updated

\* C9 witness: a listing of three kept objects of one directory, the latest
\* of them in the middle, has been read to its end.
C9_Witness ==
    /\ Len(blobs) = 3
    /\ bi = 3
    /\ \A i \in 1 .. 3 : blobs[i].dir = blobs[1].dir /\ ~ignore_key(blobs[i])
    /\ blobs[1].updated < blobs[2].updated
    /\ blobs[3].updated < blobs[2].updated
    /\ Len(latest_objects) = 1

\* The attempts whose create_bq_table or load job raised a transient error.
StagingTransient ==
    {a \in AttemptIds : /\ attempts[a].error = "transient"
                        /\ attempts[a].errorStage = "STAGING"}

\* C11: an attempt that failed with a transient error during STAGING goes no
\* further than the delete of its scratch table: it never leaves the STAGING
\* stage, it sends no create of the destination table, alters no schema and
\* appends nothing, its worker stands nowhere but in the except clause or in
\* the handler of _bulk_run, and once the GCWarning is raised its scratch table
\* is gone.
C11_StagingFailureStopsAttempt ==
    /\ \A a \in StagingTransient :
          /\ attempts[a].stage = "STAGING"
          /\ attempts[a].create = "none"
          /\ ~attempts[a].altered
          /\ ~attempts[a].merged
          /\ attempts[a].end = "transient" => a \notin scratch
    /\ \A w \in Workers :
          (Processing(w) /\ pc[w] # "run" /\ att[w] \in StagingTransient)
             => pc[w] \in {"staging_delete", "requeue", "ack"}

\* C11 witness: the load job of an attempt failed after its scratch table was
\* created, the table is deleted again and the GCWarning raised, while the
\* destination table exists with an append of another attempt in it.
C11_Witness ==
    \E a \in StagingTransient, b \in AttemptIds :
        /\ attempts[a].created
        /\ attempts[a].end = "transient"
        /\ a \notin scratch
        /\ attempts[b].merged
        /\ destExists

\* The fields of schema2 whose name no field of schema1 carries.
AbsentByName(s1, s2) == {f \in Range(s2) : f.name \notin NamesOf(s1)}

\* C13: for all schemas, get_schema_diff(current, proposed) returns, and what
\* it returns is exactly the fields of proposed whose name is absent from
\* current.
C13_DiffIsAbsentNames ==
    dpc # "called"
       => /\ dpc = "returned"
          /\ diff = AbsentByName(schema1, schema2)

\* C13, the part that holds: whenever get_schema_diff returns, it returns the
\* fields of proposed whose name is absent from current.
C13_ReturnedDiffIsAbsentNames ==
    dpc = "returned" => diff = AbsentByName(schema1, schema2)

\* C13 case: a field relaxed from REQUIRED to NULLABLE next to a new field; the
\* diff holds the new field only.
C13_RelaxedCase ==
    /\ dpc = "returned"
    /\ \E i \in 1 .. Len(schema1), j \in 1 .. Len(schema2) :
          /\ schema1[i].name = schema2[j].name
          /\ schema1[i].mode = "REQUIRED"
          /\ schema2[j].mode = "NULLABLE"
    /\ diff # {}

\* The key of task t is structurally wrong: it has no partition marker
\* segment, or its partition value matches none of the known date formats.
StructurallyWrong(t) ==
    ~objkey[t].marker \/ get_date_format(objkey[t].raw) = "None"

\* C12: a task whose object key is structurally wrong is never re-enqueued and
\* makes no warehouse call: each of its attempts ends in the parse of the key,
\* with no scratch table created, no GCWarning raised and the destination
\* table neither created, altered nor appended to.
C12_MalformedKeyTouchesNothing ==
    \A a \in AttemptIds :
        StructurallyWrong(attempts[a].task)
           => /\ attempts[a].stage = "KEY"
              /\ ~attempts[a].created
              /\ attempts[a].end = "fatal"
              /\ attempts[a].create = "none"
              /\ ~attempts[a].altered
              /\ ~attempts[a].merged

\* C12, the part that holds: a key with no partition marker segment, or with a
\* value dateutil cannot read, ends every attempt before any warehouse call.
C12_RaisingKeyTouchesNothing ==
    \A a \in AttemptIds :
        key_metadata_raises(objkey[attempts[a].task])
           => /\ attempts[a].stage = "KEY"
              /\ ~attempts[a].created
              /\ attempts[a].end = "fatal"
              /\ attempts[a].create = "none"
              /\ ~attempts[a].altered
              /\ ~attempts[a].merged

\* The attempts of task t.
AttemptsOf(t) == {a \in AttemptIds : attempts[a].task = t}

\* Task t has been attempted and every attempt of it ended with GCWarning.
AlwaysTransient(t) ==
    /\ AttemptsOf(t) # {}
    /\ \A a \in AttemptsOf(t) : attempts[a].end = "transient"

\* C14: a task every attempt of which failed with a transient error is, after
\* however many attempts, in the queue again or in the hands of a worker that
\* is about to put it back or to run it, and bulk has not got past q.join().
C14_TransientTaskCyclesForever ==
    \A t \in Tasks :
        AlwaysTransient(t)
           => /\ Occurrences(t)
                   + Cardinality({w \in Workers : /\ pc[w] \in {"run", "requeue"}
                                                  /\ item[w] = t}) >= 1
              /\ bulkpc \in {"put", "start"}

\* C14 witness: a task has used up every fault the run allows, each in an
\* attempt that ended with GCWarning, and waits in the queue for its next
\* attempt while another task is loaded and bulk stands at q.join().
C14_Witness ==
    \E t \in Tasks, b \in AttemptIds :
        /\ AlwaysTransient(t)
        /\ Cardinality(AttemptsOf(t)) = MaxFaults
        /\ Occurrences(t) = 1
        /\ attempts[b].task # t
        /\ attempts[b].merged
        /\ bulkpc = "start"
        /\ started = Concurrency

RetriedStages == {"STAGING", "SCHEMA_EXTRACT", "QUERY_MERGE"}

\* C16: a task is re-enqueued only for an attempt that raised a transient
\* service error in STAGING, SCHEMA_EXTRACT or QUERY_MERGE: only such an
\* attempt ends with GCWarning, a worker stands in the except clause of
\* _bulk_run only for such an attempt, and an attempt whose error was raised
\* in TABLE_MERGE_LOCKED or SCHEMA_EVOLVE, whatever its kind, does neither.
C16_RequeueOnlyFromRetriedStages ==
    /\ \A a \in AttemptIds :
          attempts[a].end = "transient"
             => /\ attempts[a].error = "transient"
                /\ attempts[a].errorStage \in RetriedStages
    /\ \A w \in Workers :
          pc[w] = "requeue"
             => /\ attempts[att[w]].task = item[w]
                /\ attempts[att[w]].end = "transient"
    /\ \A a \in AttemptIds :
          attempts[a].errorStage \in {"TABLE_MERGE_LOCKED", "SCHEMA_EVOLVE"}
             => /\ attempts[a].end = "fatal"
                /\ \A w \in Workers : att[w] = a => pc[w] # "requeue"

\* C16 witness: a transient service error was raised in TABLE_MERGE_LOCKED or
\* SCHEMA_EVOLVE, the attempt ended with it, and its task was acknowledged
\* without being put back: it is neither queued nor in work.
C16_Witness ==
    \E a \in AttemptIds :
        /\ attempts[a].error = "transient"
        /\ attempts[a].errorStage \in {"TABLE_MERGE_LOCKED", "SCHEMA_EVOLVE"}
        /\ attempts[a].end = "fatal"
        /\ AttemptsOf(attempts[a].task) = {a}
        /\ Occurrences(attempts[a].task) = 0
        /\ \A w \in Workers : Processing(w) => item[w] # attempts[a].task

\* The destination table exists and its schema has every top-level field name
\* of the schema run() synthesized for task t.
DestCovers(t) ==
    /\ destExists
    /\ NamesOf(generate_bq_schema(t)) \subseteq NamesOf(destSchema)

\* C17: the append of an attempt runs only after create_primary_bq_table and
\* the attempt's SCHEMA_EVOLVE step: whenever a worker is about to send the
\* append, and ever after for an attempt that has appended, the destination
\* table exists and its schema has every top-level field name of the
\* attempt's synthesized schema, whatever the other workers did in between.
C17_AppendAfterEvolve ==
    /\ \A w \in Workers :
          pc[w] = "merge"
             => /\ attempts[att[w]].create # "none"
                /\ attempts[att[w]].stage = "QUERY_MERGE"
                /\ DestCovers(item[w])
    /\ \A a \in AttemptIds :
          attempts[a].merged
             => /\ attempts[a].create # "none"
                /\ DestCovers(attempts[a].task)

\* C17 witness: an attempt found the destination table without one of its
\* columns, altered the schema and appended, while another worker was between
\* its own schema comparison and its append.
C17_Witness ==
    \E a \in AttemptIds, w \in Workers :
        /\ attempts[a].altered
        /\ attempts[a].merged
        /\ att[w] # a
        /\ pc[w] \in {"update_get", "update_put", "merge"}

\* C18: no step removes the destination table or a field of its schema: once
\* the table exists it exists after every step, and its schema after a step
\* starts with its schema before the step. What the steps delete are scratch
\* tables, which are not the destination table.
C18_DestinationOnlyGrows ==
    [][/\ destExists => destExists'
       /\ Len(destSchema) <= Len(destSchema')
       /\ \A i \in 1 .. Len(destSchema) : destSchema'[i] = destSchema[i]]_vars

\* C18 witness: the table of an earlier run has been altered to hold the
\* columns of both tasks, and an attempt that appended to it has deleted its
\* scratch table.
C18_Witness ==
    /\ destExists
    /\ Len(destSchema) > Len(EarlierSchema) + 1
    /\ \E a \in AttemptIds :
          /\ attempts[a].created
          /\ attempts[a].end = "ok"
          /\ a \notin scratch

\* The attempts whose create of the destination table succeeded.
Creators == {a \in AttemptIds : attempts[a].create = "created"}

\* C19: with lock=None the race for the destination table ends as it does
\* with the Lock: at most one create succeeds, and an attempt whose create was
\* answered with Conflict finds the one table the winner created and goes on
\* to SCHEMA_EVOLVE with no error recorded for the create.
C19_LockNotNeeded ==
    ~lock
       => /\ Cardinality(Creators) <= 1
          /\ \A a \in AttemptIds :
                attempts[a].create = "conflict"
                   => /\ destExists
                      /\ Cardinality(Creators) = 1
                      /\ attempts[a].stage # "TABLE_MERGE_LOCKED"
                      /\ attempts[a].errorStage # "TABLE_MERGE_LOCKED"

\* C19 witness: with lock=None two workers raced, one created the table, the
\* create of the other was answered with Conflict, and both attempts ended
\* well.
C19_Witness ==
    /\ ~lock
    /\ \E a, b \in AttemptIds :
          /\ attempts[a].create = "created"
          /\ attempts[b].create = "conflict"
          /\ attempts[a].end = "ok"
          /\ attempts[b].end = "ok"

\* C20: no alter request carries a schema in which a field name occurs twice:
\* whenever a worker is about to send client.update_table, the new_schema it
\* built from the table it re-read and its schema_additions names every field
\* once.
C20_NoDuplicateFieldInAlter ==
    \A w \in Workers :
        pc[w] = "update_put"
           => \A new_schema \in NewSchemas(w) : ~HasDuplicate(new_schema)

\* The attempts whose load_bq_query_to_table returned: the append is in the
\* destination table.
Merged == {a \in AttemptIds : attempts[a].merged}

\* C21: a task whose append completed is never re-enqueued, whatever the
\* delete of the scratch table does afterwards: an attempt that appended does
\* not end with GCWarning, no worker holds its task in the except clause of
\* _bulk_run or fresh from the queue, its task is neither in the queue nor
\* attempted again, and so no task has more than one attempt that appended.
C21_MergedTaskNotRequeued ==
    /\ \A a \in Merged :
          /\ attempts[a].end # "transient"
          /\ Occurrences(attempts[a].task) = 0
          /\ \A b \in AttemptsOf(attempts[a].task) : b <= a
          /\ \A w \in Workers :
                (Processing(w) /\ item[w] = attempts[a].task)
                   => /\ pc[w] \notin {"run", "requeue"}
                      /\ att[w] = a => pc[w] \in {"cleanup", "ack"}
    /\ \A t \in Tasks : Cardinality(Merged \cap AttemptsOf(t)) <= 1

\* C21 witness: after the append of an attempt the delete of its scratch
\* table failed with a transient service error; the attempt ended with that
\* error, the scratch table is still there, and the task was acknowledged
\* without being put back.
C21_Witness ==
    \E a \in Merged :
        /\ attempts[a].error = "transient"
        /\ attempts[a].errorStage = "CLEANUP"
        /\ attempts[a].end = "fatal"
        /\ a \in scratch
        /\ \A w \in Workers : Processing(w) => item[w] # attempts[a].task

\* Some attempt raised an error that is no GCWarning.
SomeFatal ==
    \/ \E a \in AttemptIds : attempts[a].end = "fatal"
    \/ \E w \in Workers : raised[w] = "fatal" \/ pc[w] = "crashed"

\* Every task bulk enqueued has an attempt that appended.
AllMerged == \A t \in 1 .. nobj : Merged \cap AttemptsOf(t) # {}

\* C22: under fair scheduling, in a run where no attempt raises a fatal error
\* (every task fails transiently at most MaxFaults times in all), bulk
\* eventually returns, and whenever it has returned from such a run every
\* enqueued task has been merged and the queue is empty.
C22_BulkReturnsAllMergedQueueEmpty ==
    /\ <>(SomeFatal \/ bulkpc = "done")
    /\ []((bulkpc = "done" /\ ~SomeFatal) => (AllMerged /\ queue = << >>))

\* C22, the parts that hold: under fair scheduling a run without fatal error
\* ends with bulk returning.
C22_BulkReturns == <>(SomeFatal \/ bulkpc = "done")

\* C22, the parts that hold: when bulk has returned from a run without fatal
\* error every enqueued task has been merged and no task is in the queue or
\* in the hands of a worker.
C22_ReturnsWithAllMerged ==
    (bulkpc = "done" /\ ~SomeFatal) => (AllMerged /\ ~TaskPending)

\* C22 case: bulk has returned from a run of MaxTasks tasks in which a task
\* failed transiently, with no fatal error and every task merged.
C22_ReturnedCase ==
    /\ bulkpc = "done"
    /\ ~SomeFatal
    /\ nobj = MaxTasks
    /\ AllMerged
    /\ \E a \in AttemptIds : attempts[a].end = "transient"

====
